---- MODULE Spec2Model ----
(***************************************************************************)
(* Order Analytics Dashboard (src/main.py): three SQL aggregations over    *)
(* the orders table, rounding of the monetary columns, the per-call        *)
(* database connection, and the panels that main() renders.                *)
(*                                                                         *)
(* Money is fixed-point, in thousandths of a currency unit, so that        *)
(* rounding to 2 decimals (to a multiple of 10 thousandths) is a real      *)
(* operation.  Dates are the integers 1..MaxDate; None is 0.               *)
(***************************************************************************)
EXTENDS Integers, Sequences, FiniteSets

\* ---------------------------------------------------------------- bounds
MaxOrders == 2
MaxDate == 2
MaxLeaked == 1

\* ------------------------------------------------------- python / SQL values
None == 0
Dates == 1..MaxDate
DateArgs == Dates \cup {None}

\* Python truthiness of an argument that is None or a datetime.date:
\* every date object is truthy, None is falsy.
Truthy(d) == d # None

\* SQL NULL is <<>>, a non-null number n is <<n>>.
Null == <<>>
Coalesce(v, dflt) == IF v = Null THEN dflt ELSE v[1]

\* ------------------------------------------------------------- the tables
\* stores(id, name) and delivery_men(id, l_name): ids 1 and 2 exist, an
\* order may also reference id 3, which is in neither table.
StoreName == [i \in {1, 2} |-> IF i = 1 THEN "Cafe X" ELSE "Cafe Y"]
DeliveryManName == [i \in {1, 2} |-> IF i = 1 THEN "Rao" ELSE "Iyer"]

\* (store_id, delivery_man_id) references carried by the order rows.
Refs == {<<1, 1>>, <<2, 2>>, <<1, 2>>, <<3, 1>>, <<1, 3>>}
\* (order_amount, delivery_charge, additional_charge) in thousandths.
Charges == {<<100006, 10004, 0>>, <<50014, 0, 5004>>}

OrderRow(st, d, ref, m) ==
    [order_status |-> st, created_at |-> d, store_id |-> ref[1],
     delivery_man_id |-> ref[2], order_amount |-> m[1],
     delivery_charge |-> m[2], additional_charge |-> m[3]]

OrderPool ==
    {OrderRow("delivered", d, ref, m) : d \in Dates, ref \in Refs, m \in Charges}
    \cup {OrderRow("pending", d, <<1, 1>>, <<100006, 10004, 0>>) : d \in Dates}

\* The queries are aggregates (COUNT, SUM, GROUP BY), independent of the row
\* order of the table, so tables are enumerated up to row order: rows are
\* listed by a key.
OrderKey(o) ==
    ((((IF o.order_status = "delivered" THEN 1 ELSE 0) * (MaxDate + 1)
        + o.created_at) * 4 + o.store_id) * 4 + o.delivery_man_id) * 2
    + (IF o.additional_charge = 0 THEN 0 ELSE 1)

OrderTables ==
    {t \in UNION {[1..n -> OrderPool] : n \in 0..MaxOrders} :
        \A i \in DOMAIN t : \A j \in DOMAIN t :
            i < j => OrderKey(t[i]) <= OrderKey(t[j])}

\* ---------------------------------------------------------- SQL evaluation
\* The WHERE clause that the three functions build (lines 33-39, 65-71,
\* 97-103): status filter always, then the date filter chosen by the
\* truthiness of the arguments.
\* BETWEEN with the end date left out of the range.
DateFilterExclusiveEnd(o, start_date, end_date) ==
    IF Truthy(start_date) /\ Truthy(end_date)
    THEN start_date <= o.created_at /\ o.created_at < end_date
    ELSE IF Truthy(start_date)
         THEN o.created_at = start_date
         ELSE TRUE

\* BETWEEN that accepts its bounds in either order.
DateFilterSymmetric(o, start_date, end_date) ==
    IF Truthy(start_date) /\ Truthy(end_date)
    THEN \/ start_date <= o.created_at /\ o.created_at <= end_date
         \/ end_date <= o.created_at /\ o.created_at <= start_date
    ELSE IF Truthy(start_date)
         THEN o.created_at = start_date
         ELSE TRUE

DateFilter(o, start_date, end_date) ==
    IF Truthy(start_date) /\ Truthy(end_date)
    THEN start_date <= o.created_at /\ o.created_at <= end_date
    ELSE IF Truthy(start_date)
         THEN o.created_at = start_date
         ELSE TRUE

\* A WHERE clause without the status condition.
StatusFilterAny(o) == TRUE

StatusFilter(o) == o.order_status = "delivered"

Where(o, start_date, end_date) ==
    StatusFilter(o) /\ DateFilter(o, start_date, end_date)

Selected(tbl, start_date, end_date) ==
    {i \in DOMAIN tbl : Where(tbl[i], start_date, end_date)}

RECURSIVE SumVals(_)
SumVals(f) ==
    IF DOMAIN f = {} THEN 0
    ELSE LET i == CHOOSE k \in DOMAIN f : TRUE
         IN f[i] + SumVals([k \in DOMAIN f \ {i} |-> f[k]])

\* SUM(expr) over a row set: NULL over the empty set.
SqlSum(f) == IF DOMAIN f = {} THEN Null ELSE <<SumVals(f)>>

\* A net revenue that forgets the additional charge.
RevenueLessFeeOnly(o) == o.order_amount - o.delivery_charge

Revenue(o) == o.order_amount - o.delivery_charge - o.additional_charge

\* ------------------------------------------------------- the three queries
\* get_final_stats: one summary row, COUNT(id) and COALESCE(SUM(..), 0).
FinalRow(tbl, start_date, end_date) ==
    LET I == Selected(tbl, start_date, end_date)
    IN [total_orders |-> Cardinality(I),
        total_order_amount |->
            Coalesce(SqlSum([i \in I |-> tbl[i].order_amount]), 0),
        total_restaurant_revenue |->
            Coalesce(SqlSum([i \in I |-> Revenue(tbl[i])]), 0),
        total_delivery_charge |->
            Coalesce(SqlSum([i \in I |-> tbl[i].delivery_charge]), 0),
        total_additional_charge |->
            Coalesce(SqlSum([i \in I |-> tbl[i].additional_charge]), 0)]

\* A join without its ON condition: every store meets every selected order.
StoreJoinCross(tbl, I, sid) == I

\* JOIN stores s ON o.store_id = s.id: the selected orders joined to store sid.
StoreJoin(tbl, I, sid) == {i \in I : tbl[i].store_id = sid}

\* JOIN delivery_men dm ON o.delivery_man_id = dm.id.
DeliveryManJoin(tbl, I, did) == {i \in I : tbl[i].delivery_man_id = did}

\* GROUP BY s.id, s.name: one group per store with at least one joined row.
RestaurantGroups(tbl, start_date, end_date) ==
    {sid \in DOMAIN StoreName :
        StoreJoin(tbl, Selected(tbl, start_date, end_date), sid) # {}}

DeliveryGroups(tbl, start_date, end_date) ==
    {did \in DOMAIN DeliveryManName :
        DeliveryManJoin(tbl, Selected(tbl, start_date, end_date), did) # {}}

RestaurantRow(tbl, start_date, end_date, sid) ==
    LET J == StoreJoin(tbl, Selected(tbl, start_date, end_date), sid)
    IN [restaurant_name |-> StoreName[sid],
        total_orders |-> Cardinality(J),
        total_order_amount |-> SqlSum([i \in J |-> tbl[i].order_amount])[1],
        total_delivery_fee |-> SqlSum([i \in J |-> tbl[i].delivery_charge])[1],
        total_additional_charge |->
            SqlSum([i \in J |-> tbl[i].additional_charge])[1],
        total_revenue |-> SqlSum([i \in J |-> Revenue(tbl[i])])[1]]

DeliveryRow(tbl, start_date, end_date, did) ==
    LET J == DeliveryManJoin(tbl, Selected(tbl, start_date, end_date), did)
    IN [delivery_man_name |-> DeliveryManName[did],
        total_deliveries |-> Cardinality(J),
        total_order_amount |-> SqlSum([i \in J |-> tbl[i].order_amount])[1],
        total_delivery_fee |-> SqlSum([i \in J |-> tbl[i].delivery_charge])[1]]

\* ORDER BY col ASC.
OrderByAsc(rowOf, col) ==
    {q \in [1..Cardinality(DOMAIN rowOf) -> DOMAIN rowOf] :
        /\ \A i \in DOMAIN q : \A j \in DOMAIN q : i # j => q[i] # q[j]
        /\ \A i \in DOMAIN q : \A j \in DOMAIN q :
              i < j => rowOf[q[i]][col] <= rowOf[q[j]][col]}

\* ORDER BY col DESC over the group rows: every arrangement of the groups
\* that is non-increasing in col (the order among equal keys is the
\* database's choice).
OrderByDesc(rowOf, col) ==
    {q \in [1..Cardinality(DOMAIN rowOf) -> DOMAIN rowOf] :
        /\ \A i \in DOMAIN q : \A j \in DOMAIN q : i # j => q[i] # q[j]
        /\ \A i \in DOMAIN q : \A j \in DOMAIN q :
              i < j => rowOf[q[i]][col] >= rowOf[q[j]][col]}

\* pd.read_sql(query, conn): the result sets the database may return.
ReadSql(f, tbl, start_date, end_date) ==
    IF f = "final"
    THEN {<<FinalRow(tbl, start_date, end_date)>>}
    ELSE IF f = "restaurant"
    THEN LET rowOf == [sid \in RestaurantGroups(tbl, start_date, end_date) |->
                          RestaurantRow(tbl, start_date, end_date, sid)]
         IN {[k \in DOMAIN q |-> rowOf[q[k]]] :
                q \in OrderByDesc(rowOf, "total_revenue")}
    ELSE LET rowOf == [did \in DeliveryGroups(tbl, start_date, end_date) |->
                          DeliveryRow(tbl, start_date, end_date, did)]
         IN {[k \in DOMAIN q |-> rowOf[q[k]]] :
                q \in OrderByDesc(rowOf, "total_order_amount")}

\* ----------------------------------------------------------------- rounding
\* No rounding at all.
Round2Skipped(x) == x

\* Series.round(2) on thousandths: to the nearest multiple of 10, a tie
\* going to the even hundredth (numpy rounds half to even).
Round2(x) ==
    LET q == x \div 10
        r == x % 10
    IN IF r < 5 THEN q * 10
       ELSE IF r > 5 THEN (q + 1) * 10
       ELSE IF q % 2 = 0 THEN q * 10 ELSE (q + 1) * 10

MonetaryColumns(f) ==
    IF f = "final"
    THEN {"total_order_amount", "total_restaurant_revenue",
          "total_delivery_charge", "total_additional_charge"}
    ELSE IF f = "restaurant"
    THEN {"total_order_amount", "total_delivery_fee",
          "total_additional_charge", "total_revenue"}
    ELSE {"total_order_amount", "total_delivery_fee"}

\* if not df.empty: for col in monetary_columns: df[col] = df[col].round(2)
RoundMonetary(f, df) ==
    IF df = <<>> THEN df
    ELSE [k \in DOMAIN df |->
            [c \in DOMAIN df[k] |->
                IF c \in MonetaryColumns(f) THEN Round2(df[k][c]) ELSE df[k][c]]]

Functions == {"final", "restaurant", "delivery"}

\* -------------------------------------------------------------------- state
VARIABLES
    orders,       \* the orders table (row i has id i)
    mode,         \* who started the current/latest run: "main" or "direct"
    status,       \* "idle", "running", "done", "raised"
    fn,           \* the aggregation function executing, or "none"
    fpc,          \* its position: "connect", "read_sql", "close", "return"
    start_date,   \* arguments of the call(s) of this run
    end_date,
    conn,         \* the executing call's connection: "none", "open", "closed"
    df,           \* the executing call's dataframe
    leaked,       \* connections still open whose call has exited
    errors,       \* queries that raised so far
    stats,        \* dataframe returned by each function in this run
    returned,     \* the functions that have returned in this run
    panel         \* what main() rendered for each panel in this run

vars == <<orders, mode, status, fn, fpc, start_date, end_date, conn, df,
          leaked, errors, stats, returned, panel>>

NoStats == [f \in Functions |-> <<>>]
NoPanels == [f \in Functions |-> "none"]

Init ==
    /\ orders \in OrderTables
    /\ mode = "main"
    /\ status = "idle"
    /\ fn = "none"
    /\ fpc = "none"
    /\ start_date = None
    /\ end_date = None
    /\ conn = "none"
    /\ df = <<>>
    /\ leaked = 0
    /\ errors = 0
    /\ stats = NoStats
    /\ returned = {}
    /\ panel = NoPanels

\* A script run (or a direct call) begins: locals and page are fresh.
Begin(f, s, e) ==
    /\ status # "running"
    /\ status' = "running"
    /\ fn' = f
    /\ fpc' = "connect"
    /\ start_date' = s
    /\ end_date' = e
    /\ conn' = "none"
    /\ df' = <<>>
    /\ stats' = NoStats
    /\ returned' = {}
    /\ panel' = NoPanels
    /\ UNCHANGED <<orders, leaked, errors>>

\* main(): "Get Today's Stats" pressed: start_date = today, end_date = None.
StartRunToday ==
    /\ mode' = "main"
    /\ \E today \in Dates : Begin("final", today, None)

\* main(): the two st.date_input widgets, each always holding a date.
StartRunDates ==
    /\ mode' = "main"
    /\ \E s \in Dates : \E e \in Dates : Begin("final", s, e)

\* One of the three functions called on its own, with any arguments.
DirectCall ==
    /\ mode' = "direct"
    /\ \E f \in Functions : \E s \in DateArgs : \E e \in DateArgs :
          Begin(f, s, e)

\* conn = get_db_connection()
GetDbConnection ==
    /\ status = "running"
    /\ fpc = "connect"
    /\ conn' = "open"
    /\ fpc' = "read_sql"
    /\ UNCHANGED <<orders, mode, status, fn, start_date, end_date, df, leaked,
                   errors, stats, returned, panel>>

\* df = pd.read_sql(query, conn), then the rounding of the monetary columns.
Query ==
    /\ status = "running"
    /\ fpc = "read_sql"
    /\ \E r \in ReadSql(fn, orders, start_date, end_date) :
          df' = RoundMonetary(fn, r)
    /\ fpc' = "close"
    /\ UNCHANGED <<orders, mode, status, fn, start_date, end_date, conn,
                   leaked, errors, stats, returned, panel>>

\* A close that leaves the connection as it was.
CloseConnSkipped(c) == c

\* The connection handle after conn.close().
CloseConn(c) == "closed"

\* What a call that exits leaves behind: its connection, if still open.
LeftOpen(c) == IF c = "open" THEN 1 ELSE 0

\* pd.read_sql raises (store unreachable, query error): the exception leaves
\* the function and main() at once; no statement after line 43/75/105 runs.
QueryRaises ==
    /\ status = "running"
    /\ fpc = "read_sql"
    /\ errors < MaxLeaked
    /\ errors' = errors + 1
    /\ leaked' = leaked + LeftOpen(conn)
    /\ status' = "raised"
    /\ fn' = "none"
    /\ fpc' = "none"
    /\ conn' = "none"
    /\ df' = <<>>
    /\ UNCHANGED <<orders, mode, start_date, end_date, stats, returned, panel>>

\* conn.close()
ConnClose ==
    /\ status = "running"
    /\ fpc = "close"
    /\ conn' = CloseConn(conn)
    /\ fpc' = "return"
    /\ UNCHANGED <<orders, mode, status, fn, start_date, end_date, df, leaked,
                   errors, stats, returned, panel>>

\* return df: the call exits and its dataframe reaches the caller.
Return(f) ==
    /\ status = "running"
    /\ fn = f
    /\ fpc = "return"
    /\ leaked' = leaked + LeftOpen(conn)
    /\ conn' = "none"
    /\ df' = <<>>
    /\ stats' = [stats EXCEPT ![f] = df]
    /\ returned' = returned \cup {f}
    /\ UNCHANGED <<orders, mode, start_date, end_date, errors>>

\* The script run is over.
Finish ==
    /\ status' = "done"
    /\ fn' = "none"
    /\ fpc' = "none"

\* main() goes on to call the next function.
Call(f) ==
    /\ status' = "running"
    /\ fn' = f
    /\ fpc' = "connect"

\* if final_stats['total_orders'].iloc[0] == 0: st.warning(..) else: metrics
OverallPanel(final_stats) ==
    IF final_stats[1].total_orders = 0 THEN "warning" ELSE "metrics"

\* A grouped panel that never shows the notice.
GroupedPanelNoNotice(grouped_stats) == "dataframe"

\* if restaurant_stats.empty: st.warning(..) else: st.dataframe(..)
GroupedPanel(grouped_stats) ==
    IF grouped_stats = <<>> THEN "warning" ELSE "dataframe"

\* main(), lines 151-155 and 157-180: the overall panel; the two grouped
\* panels live in its else branch.
FinalStatsReturn ==
    /\ mode = "main"
    /\ Return("final")
    /\ panel' = [panel EXCEPT !["final"] = OverallPanel(df)]
    /\ IF df[1].total_orders = 0
       THEN Finish
       ELSE Call("restaurant")

\* main(), lines 180-196: the restaurant panel.
RestaurantStatsReturn ==
    /\ mode = "main"
    /\ Return("restaurant")
    /\ panel' = [panel EXCEPT !["restaurant"] = GroupedPanel(df)]
    /\ Call("delivery")

\* main(), lines 196-200: the delivery-man panel, the last of the run.
DeliveryStatsReturn ==
    /\ mode = "main"
    /\ Return("delivery")
    /\ panel' = [panel EXCEPT !["delivery"] = GroupedPanel(df)]
    /\ Finish

\* A function called on its own returns to its caller.
DirectReturn ==
    /\ mode = "direct"
    /\ \E f \in Functions : Return(f)
    /\ Finish
    /\ UNCHANGED panel

\* The dashboard: script runs of main().
Next ==
    \/ StartRunToday
    \/ StartRunDates
    \/ GetDbConnection
    \/ Query
    \/ QueryRaises
    \/ ConnClose
    \/ FinalStatsReturn
    \/ RestaurantStatsReturn
    \/ DeliveryStatsReturn

Spec == Init /\ [][Next]_vars

\* The three functions called on their own with every date range.
NextCalls ==
    \/ DirectCall
    \/ GetDbConnection
    \/ Query
    \/ ConnClose
    \/ DirectReturn

SpecCalls == Init /\ [][NextCalls]_vars

\* ======================================================== checked properties
Delivered(o) == o.order_status = "delivered"

\* The date policy as stated: both bounds -> inclusive between; only a
\* start -> that single date; empty -> every date.
PolicyCovers == start_date # None \/ end_date = None

InPolicyRange(o) ==
    \/ /\ start_date # None /\ end_date # None
       /\ start_date <= o.created_at /\ o.created_at <= end_date
    \/ start_date # None /\ end_date = None /\ o.created_at = start_date
    \/ start_date = None /\ end_date = None

PolicyOrders == {i \in DOMAIN orders : Delivered(orders[i]) /\ InPolicyRange(orders[i])}

AmountOf(I) == SumVals([i \in I |-> orders[i].order_amount])

NameColumn(f) == IF f = "restaurant" THEN "restaurant_name" ELSE "delivery_man_name"
CountColumn(f) == IF f = "delivery" THEN "total_deliveries" ELSE "total_orders"
GroupNames(f) == IF f = "restaurant" THEN StoreName ELSE DeliveryManName
GroupRef(f, o) == IF f = "restaurant" THEN o.store_id ELSE o.delivery_man_id

\* C2: every returned result aggregates exactly the delivered orders that the
\* stated date policy selects (between start and end inclusive; the single
\* start date; every date when the range is empty).
C2_DateFilterPolicy ==
    \A f \in returned :
        PolicyCovers =>
            IF f = "final"
            THEN /\ Len(stats[f]) = 1
                 /\ stats[f][1].total_orders = Cardinality(PolicyOrders)
                 /\ stats[f][1].total_order_amount = Round2(AmountOf(PolicyOrders))
            ELSE /\ \A g \in DOMAIN GroupNames(f) :
                      LET J == {i \in PolicyOrders : GroupRef(f, orders[i]) = g}
                          K == {k \in DOMAIN stats[f] :
                                   stats[f][k][NameColumn(f)] = GroupNames(f)[g]}
                      IN IF J = {} THEN K = {}
                         ELSE /\ Cardinality(K) = 1
                              /\ \A k \in K :
                                    /\ stats[f][k][CountColumn(f)] = Cardinality(J)
                                    /\ stats[f][k].total_order_amount
                                           = Round2(AmountOf(J))
                 /\ \A k \in DOMAIN stats[f] :
                      \E g \in DOMAIN GroupNames(f) :
                          stats[f][k][NameColumn(f)] = GroupNames(f)[g]

\* C2 witness: a both-bounds range returned the overall row counting delivered
\* orders created on the start date and on the end date.
C2_Witness ==
    /\ "final" \in returned
    /\ start_date # None /\ end_date # None /\ start_date < end_date
    /\ \E i \in PolicyOrders : orders[i].created_at = start_date
    /\ \E i \in PolicyOrders : orders[i].created_at = end_date
    /\ stats["final"][1].total_orders = 2

DeliveredOnly == SelectSeq(orders, Delivered)

AllZero(row) ==
    /\ row.total_orders = 0
    /\ row.total_order_amount = 0
    /\ row.total_restaurant_revenue = 0
    /\ row.total_delivery_charge = 0
    /\ row.total_additional_charge = 0

\* C3: a non-delivered order contributes to nothing: every returned result is
\* a result of the same call over the table without its non-delivered rows,
\* and a range holding only non-delivered orders gives the all-zero overall row.
C3_DeliveredOnly ==
    \A f \in returned :
        /\ stats[f] \in {RoundMonetary(f, r) :
                            r \in ReadSql(f, DeliveredOnly, start_date, end_date)}
        /\ (f = "final" /\ PolicyCovers /\ PolicyOrders = {})
               => AllZero(stats[f][1])

\* C3 witness: the overall row was returned for a range that holds a
\* non-delivered order next to a delivered one.
C3_Witness ==
    /\ "final" \in returned
    /\ PolicyCovers
    /\ \E i \in DOMAIN orders :
          ~Delivered(orders[i]) /\ InPolicyRange(orders[i])
    /\ PolicyOrders # {}
    /\ stats["final"][1].total_orders = Cardinality(PolicyOrders)

\* C4: when the range selects no delivered order (a start after the end
\* included) the query has a result, the overall aggregation returns one
\* all-zero row and the grouped aggregations return zero rows.
C4_EmptyRange ==
    (PolicyCovers /\ PolicyOrders = {}) =>
        /\ fpc = "read_sql" => ReadSql(fn, orders, start_date, end_date) # {}
        /\ \A f \in returned :
              IF f = "final"
              THEN Len(stats[f]) = 1 /\ AllZero(stats[f][1])
              ELSE stats[f] = <<>>

\* C4 witness: a call returned for a range whose start is after its end, over
\* a table holding delivered orders.
C4_Witness ==
    /\ returned # {}
    /\ start_date # None /\ end_date # None /\ start_date > end_date
    /\ \E i \in DOMAIN orders : Delivered(orders[i])

RevenueColumn(f) == IF f = "final" THEN "total_restaurant_revenue" ELSE "total_revenue"
FeeColumn(f) == IF f = "final" THEN "total_delivery_charge" ELSE "total_delivery_fee"

NetGap(f, row) ==
    row[RevenueColumn(f)]
    - (row.total_order_amount - row[FeeColumn(f)] - row.total_additional_charge)

\* C5 as stated: in every returned overall and per-restaurant row the rounded
\* revenue equals rounded amount - rounded fee - rounded additional charge.
C5_NetRevenueExact ==
    \A f \in returned \cap {"final", "restaurant"} :
        \A k \in DOMAIN stats[f] : NetGap(f, stats[f][k]) = 0

\* C5 amended: the returned revenue differs from returned amount - fee -
\* additional charge by at most 0.02 (four independent roundings).
C5_NetRevenueWithinRounding ==
    \A f \in returned \cap {"final", "restaurant"} :
        \A k \in DOMAIN stats[f] :
            /\ NetGap(f, stats[f][k]) <= 20
            /\ NetGap(f, stats[f][k]) >= -20

\* C5 witness: a returned per-restaurant row whose columns do not add up.
C5_Witness ==
    /\ "restaurant" \in returned
    /\ \E k \in DOMAIN stats["restaurant"] :
          NetGap("restaurant", stats["restaurant"][k]) # 0

SortColumn(f) == IF f = "restaurant" THEN "total_revenue" ELSE "total_order_amount"

\* C6: the returned per-restaurant rows are non-increasing in total_revenue
\* and the returned per-courier rows in total_order_amount, after rounding.
C6_Ordering ==
    \A f \in returned \cap {"restaurant", "delivery"} :
        \A i \in DOMAIN stats[f] : \A j \in DOMAIN stats[f] :
            i < j => stats[f][i][SortColumn(f)] >= stats[f][j][SortColumn(f)]

\* C6 witness: a grouped result of two rows with different sort keys.
C6_Witness ==
    \E f \in returned \cap {"restaurant", "delivery"} :
        /\ Len(stats[f]) = 2
        /\ stats[f][1][SortColumn(f)] > stats[f][2][SortColumn(f)]

TwoDecimals(x) == x % 10 = 0

\* C9: every monetary cell of a returned result has 2 decimals, and the other
\* columns are those of a result set the database returned.
C9_Rounded ==
    \A f \in returned :
        /\ \A k \in DOMAIN stats[f] : \A c \in MonetaryColumns(f) :
              TwoDecimals(stats[f][k][c])
        /\ \E r \in ReadSql(f, orders, start_date, end_date) :
              /\ Len(r) = Len(stats[f])
              /\ \A k \in DOMAIN r : \A c \in DOMAIN r[k] \ MonetaryColumns(f) :
                    stats[f][k][c] = r[k][c]

\* C9 witness: a returned row whose retrieved amount had a third decimal.
C9_Witness ==
    \E f \in returned :
        /\ stats[f] # <<>>
        /\ \E r \in ReadSql(f, orders, start_date, end_date) :
              ~TwoDecimals(r[1].total_order_amount)

GroupedCount(f) == SumVals([k \in DOMAIN stats[f] |-> stats[f][k][CountColumn(f)]])
OverallCount == FinalRow(orders, start_date, end_date).total_orders
Referenced(f) ==
    {i \in Selected(orders, start_date, end_date) :
        GroupRef(f, orders[i]) \in DOMAIN GroupNames(f)}

\* C10: the grouped counts add up to the selected orders that reference an
\* existing restaurant (courier): at most the overall count, equal to it
\* exactly when no selected order references a missing one.
C10_GroupedWithinOverall ==
    \A f \in returned \cap {"restaurant", "delivery"} :
        /\ GroupedCount(f) <= OverallCount
        /\ GroupedCount(f) = Cardinality(Referenced(f))
        /\ GroupedCount(f) = OverallCount
              <=> Referenced(f) = Selected(orders, start_date, end_date)

\* C10 witness: a grouped result that counts fewer orders than the overall
\* aggregation, one order referencing a missing restaurant or courier.
C10_Witness ==
    \E f \in returned \cap {"restaurant", "delivery"} :
        /\ stats[f] # <<>>
        /\ GroupedCount(f) < OverallCount

OpenConns == leaked + LeftOpen(conn)

\* C1 as stated: no connection opened by a call that has exited is still
\* open, whether the call returned or raised.
C1_ReleasedOnEveryExit == leaked = 0

\* What each aggregation gives for the run's table and range.
EmptyResult(f) ==
    \A r \in ReadSql(f, orders, start_date, end_date) :
        IF f = "final" THEN r[1].total_orders = 0 ELSE r = <<>>

MainDone == mode = "main" /\ status = "done"

\* C7 as stated: after a run of main(), every panel whose aggregation is
\* zero-order or zero-row shows the notice.
C7_EveryEmptyPanelNotified ==
    MainDone => \A f \in Functions : EmptyResult(f) => panel[f] = "warning"

\* C7 amended: the overall panel shows the notice exactly when total_orders
\* is 0, and then the two grouped queries are not run and their panels not
\* rendered; otherwise each grouped panel shows the notice exactly when its
\* result has zero rows.
C7_NotifiedWhenRendered ==
    MainDone =>
        /\ panel["final"] =
              IF stats["final"][1].total_orders = 0 THEN "warning" ELSE "metrics"
        /\ stats["final"][1].total_orders = 0 =>
              /\ returned = {"final"}
              /\ panel["restaurant"] = "none"
              /\ panel["delivery"] = "none"
        /\ stats["final"][1].total_orders # 0 =>
              /\ returned = Functions
              /\ \A f \in {"restaurant", "delivery"} :
                    panel[f] = IF stats[f] = <<>> THEN "warning" ELSE "dataframe"

\* C7 witness: a finished run with orders overall, none of them for an
\* existing restaurant: the restaurant panel shows the notice.
C7_Witness ==
    /\ MainDone
    /\ stats["final"][1].total_orders # 0
    /\ stats["restaurant"] = <<>>
    /\ panel["restaurant"] = "warning"
    /\ panel["delivery"] = "dataframe"

\* C8: while no query has raised, at most one connection is open, it is the
\* executing call's own, none is open when a call starts, when it returns, or
\* when no call is executing.
C8_OneConnectionPerCall ==
    errors = 0 =>
        /\ OpenConns <= 1
        /\ fpc \in {"none", "connect", "return"} => OpenConns = 0
        /\ fpc \in {"read_sql", "close"} => conn = "open" /\ leaked = 0
        /\ fpc = "return" => conn = "closed"

\* C8 witness: a run of main() made all three calls without an error.
C8_Witness ==
    /\ MainDone
    /\ errors = 0
    /\ returned = Functions

====
